---------------------------- MODULE Spec2Model ----------------------------
(***************************************************************************)
(* A model of autolysis.py: DataAnalyzer.__init__ / _read_csv_robust       *)
(* (ingestion), analyze_dataset and its five sub-computations,             *)
(* visualize_data, generate_narrative under tenacity's @retry, and         *)
(* run_analysis.                                                           *)
(*                                                                         *)
(* Three specifications share the variables and the actions:               *)
(*   SpecIngest    DataAnalyzer.__init__ (the candidate-encoding loop)     *)
(*   Spec          run_analysis on a constructed analyzer                  *)
(*   SpecOutliers  analyze_dataset on tables with one value-rich column    *)
(***************************************************************************)
EXTENDS Integers, Sequences, FiniteSets, TLC

(***************************************************************************)
(* Bounds of the model.                                                    *)
(***************************************************************************)
MaxCols == 2

MaxRows == 2

OutlierRows == 4

MaxVal == 2

(***************************************************************************)
(* Program constants.                                                      *)
(***************************************************************************)
StopAfterAttempt == 3

WaitMultiplier == 1

WaitMin == 4

WaitMax == 10

\* Python's None as returned by chardet.detect(...)['encoding'] when no
\* encoding is recognised.  It is a list element like any other for
\* dict.fromkeys and for pd.read_csv(encoding=None), but not a str.
NoneEnc == "<None>"

FallbackEncodings == <<"utf-8", "latin-1", "iso-8859-1", "cp1252", "utf-16", "ascii">>

\* Values chardet.detect can report (its own spelling), or None.
DetectorResults == {NoneEnc, "ascii", "utf-8", "ISO-8859-1", "Windows-1252"}

(***************************************************************************)
(* Cells, columns and tables (the pandas DataFrame).                       *)
(***************************************************************************)
Num(n) == [k |-> "num", n |-> n, s |-> ""]

Str(s) == [k |-> "str", n |-> 0, s |-> s]

NaN == [k |-> "nan", n |-> 0, s |-> ""]

\* Decimal strings, by value + 1.
Digits == <<"0", "1", "2", "3", "4", "5", "6", "7", "8", "9">>

NumStr(n) == Digits[n + 1]

Parses(s) == \E i \in DOMAIN Digits : Digits[i] = s

ParseNum(s) == (CHOOSE i \in DOMAIN Digits : Digits[i] = s) - 1

ColNames == <<"a", "b", "c", "d", "e">>

Range(f) == {f[i] : i \in DOMAIN f}

\* dtype read_csv infers for a column of parsed cells.
InferDtype(cells) ==
    IF \E i \in DOMAIN cells : cells[i].k = "str" THEN "object"
    ELSE IF \E i \in DOMAIN cells : cells[i].k = "nan" THEN "float64"
    ELSE "int64"

IsNumberDtype(d) == d \in {"int64", "float64"}

Column(name, cells) == [name |-> name, dtype |-> InferDtype(cells), cells |-> cells]

\* A column as read_csv can return it: either numeric (every cell a number
\* or missing), or object: its cells are the file's strings, at least one of
\* which is not a number (else the column would have been parsed as numeric).
ReadableCells(cells, numcells, strcells) ==
    \/ \A i \in DOMAIN cells : cells[i] \in numcells
    \/ /\ \A i \in DOMAIN cells : cells[i] \in strcells
       /\ \E i \in DOMAIN cells : cells[i].k = "str" /\ ~Parses(cells[i].s)

\* The columns of r rows: numeric ones over numcells, object ones over
\* strcells.
CellSeqs(r, numcells, strcells) ==
    {cs \in [1..r -> numcells \cup strcells] : ReadableCells(cs, numcells, strcells)}

\* The table whose columns hold the given cells.
TableOf(css) == [i \in DOMAIN css |-> Column(ColNames[i], css[i])]

PlainNumbers == {Num(1), NaN}

PlainStrings == {Str("abc"), Str("1"), NaN}

RichNumbers == {Num(v) : v \in 0..MaxVal} \cup {NaN}

RichStrings == {Str(NumStr(v)) : v \in 0..MaxVal} \cup {Str("abc"), NaN}

\* Tables of the pipeline specifications: 1..MaxCols columns and 1..MaxRows
\* rows of plain cells.
IsPlainTable(t) ==
    \E n \in 1..MaxCols, r \in 1..MaxRows :
        \E css \in [1..n -> CellSeqs(r, PlainNumbers, PlainStrings)] : t = TableOf(css)

\* Columns that accompany the value-rich column in SpecOutliers.
CompanionCells(r) ==
    {<<>>, <<[i \in 1..r |-> Str("abc")]>>, <<[i \in 1..r |-> Num(1)]>>}

\* Tables of SpecOutliers: one column of rich cells, 1..OutlierRows rows,
\* alone or beside a text column or a constant numeric column.
IsOutlierTable(t) ==
    \E r \in 1..OutlierRows :
        \E cs \in CellSeqs(r, RichNumbers, RichStrings), c \in CompanionCells(r) :
            t = TableOf(<<cs>> \o c)

NRows(t) == Len(t[1].cells)

VARIABLES
    pc,                 \* position in main(): see the actions
    exc,                \* the exception that ended the run ("" if none)
    exc_msg,            \* the encodings named in the ValueError's message
    detected_encoding,  \* chardet's answer
    encodings_to_try,   \* the candidate list
    enc_idx,            \* position of the for loop in encodings_to_try
    tried,              \* encodings handed to pd.read_csv so far, in order
    last_result,        \* outcome of the latest pd.read_csv call
    loaded,             \* the table as read_csv returned it
    df,                 \* self.df
    basic_stats, missing_values, correlations, column_types, outliers,
    figure_open,        \* the matplotlib figure exists and is not closed
    image_written,      \* analysis_plots.png was saved
    server,             \* what the endpoint answers to request 1, 2, 3
    attempt_number,     \* tenacity's attempt counter
    requests_sent,      \* calls of requests.post
    slept,              \* time units tenacity slept between attempts
    readme,             \* content of README.md
    writes              \* number of times README.md was opened for writing

ingest_vars == <<detected_encoding, encodings_to_try, enc_idx, tried, last_result, exc_msg>>

analysis_vars == <<basic_stats, missing_values, correlations, column_types, outliers>>

vis_vars == <<figure_open, image_written>>

narr_vars == <<attempt_number, requests_sent, slept, readme, writes>>

vars == <<pc, exc, ingest_vars, loaded, df, analysis_vars, vis_vars, server, narr_vars>>

EmptyDict == [x \in {} |-> 0]

NoFile == [kind |-> "absent", text |-> "", rows |-> 0, cols |-> 0]

(***************************************************************************)
(* Ingestion: DataAnalyzer.__init__ and _read_csv_robust.                  *)
(***************************************************************************)
\* list(dict.fromkeys(xs)): the first occurrence of each element, in order.
DedupDropNothing(xs) == xs

DedupKeepOrder(xs) ==
    LET first == {i \in DOMAIN xs : \A j \in 1..(i - 1) : xs[j] # xs[i]}
        F[i \in 0..Len(xs)] ==
            IF i = 0 THEN <<>>
            ELSE IF i \in first THEN Append(F[i - 1], xs[i]) ELSE F[i - 1]
    IN  F[Len(xs)]

\* encodings_to_try.insert(0, detected_encoding), then the de-duplication.
CandidateList(detected) == DedupKeepOrder(<<detected>> \o FallbackEncodings)

\* ', '.join(encodings_to_try) raises TypeError on an element that is not a str.
JoinRaises(xs) == \E i \in DOMAIN xs : xs[i] = NoneEnc

ReadOutcomes == {"ok", "UnicodeDecodeError", "ParserError", "other"}

Detect ==
    /\ pc = "detect"
    /\ \E d \in DetectorResults :
          /\ detected_encoding' = d
          /\ encodings_to_try' = CandidateList(d)
    /\ enc_idx' = 1
    /\ pc' = "read"
    /\ UNCHANGED <<exc, exc_msg, tried, last_result, loaded, df, analysis_vars,
                   vis_vars, server, narr_vars>>

\* One iteration of the for loop: pd.read_csv under the current candidate.
ReadCsv ==
    /\ pc = "read"
    /\ enc_idx <= Len(encodings_to_try)
    /\ tried' = Append(tried, encodings_to_try[enc_idx])
    /\ \E r \in ReadOutcomes :
          /\ last_result' = r
          /\ CASE r = "ok" ->
                    /\ IsPlainTable(df')
                    /\ loaded' = df'
                    /\ pc' = "constructed"
                    /\ UNCHANGED <<enc_idx, exc>>
               [] r \in {"UnicodeDecodeError", "ParserError"} ->
                    /\ enc_idx' = enc_idx + 1
                    /\ UNCHANGED <<pc, exc, df, loaded>>
               [] OTHER ->
                    /\ pc' = "raised"
                    /\ exc' = "other"
                    /\ UNCHANGED <<enc_idx, df, loaded>>
    /\ UNCHANGED <<exc_msg, detected_encoding, encodings_to_try, analysis_vars,
                   vis_vars, server, narr_vars>>

\* The loop ran out of candidates: raise ValueError(... ', '.join(...)).
RaiseAllFailed ==
    /\ pc = "read"
    /\ enc_idx > Len(encodings_to_try)
    /\ pc' = "raised"
    /\ IF JoinRaises(encodings_to_try)
         THEN exc' = "TypeError" /\ exc_msg' = <<>>
         ELSE exc' = "ValueError" /\ exc_msg' = encodings_to_try
    /\ UNCHANGED <<detected_encoding, encodings_to_try, enc_idx, tried, last_result,
                   loaded, df, analysis_vars, vis_vars, server, narr_vars>>

InitCommon ==
    /\ exc = ""
    /\ exc_msg = <<>>
    /\ basic_stats = EmptyDict
    /\ missing_values = EmptyDict
    /\ correlations = EmptyDict
    /\ column_types = EmptyDict
    /\ outliers = EmptyDict
    /\ figure_open = FALSE
    /\ image_written = FALSE
    /\ attempt_number = 1
    /\ requests_sent = 0
    /\ slept = 0
    /\ readme = NoFile
    /\ writes = 0

InitIngest ==
    /\ InitCommon
    /\ pc = "detect"
    /\ detected_encoding = ""
    /\ encodings_to_try = FallbackEncodings
    /\ enc_idx = 0
    /\ tried = <<>>
    /\ last_result = ""
    /\ loaded = <<>>
    /\ df = <<>>
    /\ server = <<>>

NextIngest == Detect \/ ReadCsv \/ RaiseAllFailed

SpecIngest == InitIngest /\ [][NextIngest]_vars


(***************************************************************************)
(* Analysis: analyze_dataset and its five sub-computations.                *)
(***************************************************************************)
Rat(n, d) == [num |-> n, den |-> d]

\* A float NaN where a number is expected.
NaNRat == Rat(0, 0)

ColumnNames(t) == {t[i].name : i \in DOMAIN t}

ColumnOf(t, name) == t[CHOOSE i \in DOMAIN t : t[i].name = name]

\* df.select_dtypes(include=[np.number]).columns
SelectNumberDtypes(t) == {t[i].name : i \in {j \in DOMAIN t : IsNumberDtype(t[j].dtype)}}

\* pd.to_numeric(..., errors='coerce') on one value: a string that does not
\* parse becomes NaN.
ToNumericCell(c) ==
    IF c.k = "str"
      THEN IF Parses(c.s) THEN Num(ParseNum(c.s)) ELSE NaN
      ELSE c

\* pd.to_numeric(column, errors='coerce'): a numeric column is returned as it
\* is; an object column becomes int64, or float64 when a NaN results.
ToNumeric(col) ==
    IF IsNumberDtype(col.dtype) THEN col
    ELSE LET cells == [i \in DOMAIN col.cells |-> ToNumericCell(col.cells[i])]
         IN  [name |-> col.name,
              dtype |-> IF \E i \in DOMAIN cells : cells[i].k = "nan"
                          THEN "float64" ELSE "int64",
              cells |-> cells]

\* series.isna().all()
AllNa(col) == \A i \in DOMAIN col.cells : col.cells[i].k = "nan"

\* The values of a column that are not missing, in row order.
Values(col) ==
    LET kept == SelectSeq(col.cells, LAMBDA c : c.k = "num")
    IN  [i \in DOMAIN kept |-> kept[i].n]

\* The k-th smallest (k from 1) of a non-empty sequence of integers.
KthSmallest(vals, k) ==
    CHOOSE v \in Range(vals) :
        /\ Cardinality({i \in DOMAIN vals : vals[i] < v}) < k
        /\ Cardinality({i \in DOMAIN vals : vals[i] <= v}) >= k

\* 4 * series.quantile(q4 / 4) for q4 in {1, 2, 3}: linear interpolation
\* between the order statistics around position (n - 1) * q, NaN skipped.
QuantileTimes4(vals, q4) ==
    LET n == Len(vals)
        pos4 == (n - 1) * q4
        lo == pos4 \div 4
        xlo == KthSmallest(vals, lo + 1)
        xhi == KthSmallest(vals, IF lo + 2 <= n THEN lo + 2 ELSE n)
    IN  4 * xlo + (pos4 % 4) * (xhi - xlo)

\* One column of DataFrame.describe(): count, min, max and the quartiles
\* (mean and std, which are not rational in general, are left out).
Describe(col) ==
    LET vals == Values(col)
    IN  IF vals = <<>>
          THEN [count |-> 0, min |-> NaNRat, q25 |-> NaNRat, q50 |-> NaNRat,
                q75 |-> NaNRat, max |-> NaNRat]
          ELSE [count |-> Len(vals),
                min |-> Rat(KthSmallest(vals, 1), 1),
                q25 |-> Rat(QuantileTimes4(vals, 1), 4),
                q50 |-> Rat(QuantileTimes4(vals, 2), 4),
                q75 |-> Rat(QuantileTimes4(vals, 3), 4),
                max |-> Rat(KthSmallest(vals, Len(vals)), 1)]

\* The loop of _get_basic_statistics: every column is assigned its coerced
\* values before the isna().all() test, whether or not any value survived.
CoerceAll(t) == [i \in DOMAIN t |-> ToNumeric(t[i])]

\* numeric_cols: the columns typed numeric on entry, and every column in
\* which some value survived the coercion; list(set(...)) makes it a set.
NumericCols(before, after) ==
    SelectNumberDtypes(before)
        \cup {after[i].name : i \in {j \in DOMAIN after : ~AllNa(after[j])}}

BasicStatistics(before, after) ==
    LET numeric_cols == NumericCols(before, after)
    IN  [total_rows |-> NRows(after),
         total_columns |-> Len(after),
         numeric_columns |-> numeric_cols,
         summary |-> IF numeric_cols # {}
                       THEN [c \in numeric_cols |-> Describe(ColumnOf(after, c))]
                       ELSE EmptyDict]

NullCount(col) == Cardinality({i \in DOMAIN col.cells : col.cells[i].k = "nan"})

\* isnull().sum() / len(df) * 100 per column, the zero entries dropped.
MissingValues(t) ==
    LET missing == {n \in ColumnNames(t) : NullCount(ColumnOf(t, n)) > 0}
    IN  [n \in missing |-> Rat(NullCount(ColumnOf(t, n)) * 100, NRows(t))]

\* One entry of DataFrame.corr(): Pearson's r over the rows where both
\* values are present; NaN when there are fewer than two such rows or one
\* of the two columns is constant over them.  The value itself is not
\* computed.
CorrEntry(x, y) ==
    LET rows == {i \in DOMAIN x.cells : x.cells[i].k = "num" /\ y.cells[i].k = "num"}
        varies(c) == \E i, j \in rows : c.cells[i].n # c.cells[j].n
    IN  IF varies(x) /\ varies(y) THEN "r" ELSE "nan"

Correlations(t) ==
    LET numeric_cols == SelectNumberDtypes(t)
    IN  IF Cardinality(numeric_cols) > 1
          THEN [c \in numeric_cols |->
                   [d \in numeric_cols |-> CorrEntry(ColumnOf(t, c), ColumnOf(t, d))]]
          ELSE EmptyDict

ColumnTypes(t) == [n \in ColumnNames(t) |-> ColumnOf(t, n).dtype]

\* 8 * lower_bound and 8 * upper_bound from 4 * Q1 and 4 * Q3:
\* Q1 - 1.5 * IQR and Q3 + 1.5 * IQR.
LowerBoundTimes8(q1, q3) == 2 * q1 - 3 * (q3 - q1)

UpperBoundTimes8(q1, q3) == 2 * q3 + 3 * (q3 - q1)

\* (self.df[col] < lower_bound) | (self.df[col] > upper_bound) for one cell;
\* a comparison with NaN is False.
OutsideOrOnBounds(c, lo8, hi8) == c.k = "num" /\ (8 * c.n <= lo8 \/ 8 * c.n >= hi8)

OutsideBounds(c, lo8, hi8) == c.k = "num" /\ (8 * c.n < lo8 \/ 8 * c.n > hi8)

\* The rows of column_outliers.
OutlierRowsOf(col) ==
    LET vals == Values(col)
        q1 == QuantileTimes4(vals, 1)
        q3 == QuantileTimes4(vals, 3)
    IN  IF vals = <<>> THEN {}
        ELSE {i \in DOMAIN col.cells :
                 OutsideBounds(col.cells[i], LowerBoundTimes8(q1, q3),
                               UpperBoundTimes8(q1, q3))}

OutlierEntry(col, nrows) ==
    LET vals == Values(col)
        q1 == QuantileTimes4(vals, 1)
        q3 == QuantileTimes4(vals, 3)
        found == Cardinality(OutlierRowsOf(col))
    IN  [total_outliers |-> found,
         percentage |-> Rat(found * 100, nrows),
         lower_bound |-> Rat(LowerBoundTimes8(q1, q3), 8),
         upper_bound |-> Rat(UpperBoundTimes8(q1, q3), 8)]

DetectOutliers(t) ==
    LET numeric_cols == SelectNumberDtypes(t)
        reported == {n \in numeric_cols : OutlierRowsOf(ColumnOf(t, n)) # {}}
    IN  [n \in reported |-> OutlierEntry(ColumnOf(t, n), NRows(t))]

\* run_analysis up to and including the call of _get_basic_statistics.
GetBasicStatistics ==
    /\ pc = "constructed"
    /\ df' = CoerceAll(df)
    /\ basic_stats' = BasicStatistics(df, df')
    /\ pc' = "missing_values"
    /\ UNCHANGED <<exc, ingest_vars, loaded, missing_values, correlations,
                   column_types, outliers, vis_vars, server, narr_vars>>

AnalyzeMissingValues ==
    /\ pc = "missing_values"
    /\ missing_values' = MissingValues(df)
    /\ pc' = "correlations"
    /\ UNCHANGED <<exc, ingest_vars, loaded, df, basic_stats, correlations,
                   column_types, outliers, vis_vars, server, narr_vars>>

ComputeCorrelations ==
    /\ pc = "correlations"
    /\ correlations' = Correlations(df)
    /\ pc' = "column_types"
    /\ UNCHANGED <<exc, ingest_vars, loaded, df, basic_stats, missing_values,
                   column_types, outliers, vis_vars, server, narr_vars>>

GetColumnTypes ==
    /\ pc = "column_types"
    /\ column_types' = ColumnTypes(df)
    /\ pc' = "outliers"
    /\ UNCHANGED <<exc, ingest_vars, loaded, df, basic_stats, missing_values,
                   correlations, outliers, vis_vars, server, narr_vars>>

DetectOutliersStep ==
    /\ pc = "outliers"
    /\ outliers' = DetectOutliers(df)
    /\ pc' = "visualize"
    /\ UNCHANGED <<exc, ingest_vars, loaded, df, basic_stats, missing_values,
                   correlations, column_types, vis_vars, server, narr_vars>>

NextAnalyze ==
    \/ GetBasicStatistics
    \/ AnalyzeMissingValues
    \/ ComputeCorrelations
    \/ GetColumnTypes
    \/ DetectOutliersStep

\* An analyzer whose constructor returned: ingestion succeeded at once.
InitConstructed ==
    /\ InitCommon
    /\ pc = "constructed"
    /\ detected_encoding = "utf-8"
    /\ encodings_to_try = CandidateList("utf-8")
    /\ enc_idx = 1
    /\ tried = <<"utf-8">>
    /\ last_result = "ok"

InitOutliers ==
    /\ InitConstructed
    /\ IsOutlierTable(df)
    /\ loaded = df
    /\ server = <<>>

SpecOutliers == InitOutliers /\ [][NextAnalyze]_vars


(***************************************************************************)
(* Visualization: visualize_data.                                          *)
(***************************************************************************)
\* The calls inside the try block that are made for this analysis, any of
\* which may raise; plt.close() is the last statement of the block.
RenderSteps(corr, missing, t) ==
    {"figure", "tight_layout", "savefig"}
        \cup (IF corr # EmptyDict THEN {"heatmap"} ELSE {})
        \cup (IF missing # EmptyDict THEN {"missing_bar"} ELSE {})
        \cup (IF SelectNumberDtypes(t) # {} THEN {"boxplot", "histplot"} ELSE {})

\* The figure exists once plt.figure returned; only plt.close() releases it.
FigureLeftOpen(failed_at) == failed_at \notin {"none", "figure"}

VisualizeData ==
    /\ pc = "visualize"
    /\ \E failed_at \in {"none"} \cup RenderSteps(correlations, missing_values, df) :
          /\ figure_open' = FigureLeftOpen(failed_at)
          /\ image_written' = (failed_at = "none")
    /\ pc' = "narrate"
    /\ UNCHANGED <<exc, ingest_vars, loaded, df, analysis_vars, server, narr_vars>>

(***************************************************************************)
(* Narration: generate_narrative under                                     *)
(* @retry(stop=stop_after_attempt(3), wait=wait_exponential(1, 4, 10)).    *)
(***************************************************************************)
Response(kind, text) == [kind |-> kind, text |-> text]

NarrativeTexts == {"story A", "story B"}

\* What one request can meet: requests.post raising (no connection), a
\* non-2xx status (raise_for_status raises HTTPError), a 2xx body without
\* choices[0].message.content (KeyError, IndexError or TypeError), or a 2xx
\* body with the text.
Responses ==
    {Response("transport_error", ""), Response("status_error", ""),
     Response("missing_content", "")}
        \cup {Response("ok", t) : t \in NarrativeTexts}

Scripts == [1..StopAfterAttempt -> Responses]

\* The exception classes caught by `except requests.RequestException`.
IsRequestException(kind) == kind \in {"transport_error", "status_error"}

RECURSIVE Pow2(_)
Pow2(n) == IF n <= 0 THEN 1 ELSE 2 * Pow2(n - 1)

Min(a, b) == IF a <= b THEN a ELSE b

Max(a, b) == IF a >= b THEN a ELSE b

\* tenacity's wait_exponential: multiplier * 2 ** (attempt - 1), clamped.
WaitExponential(attempt) ==
    Max(WaitMin, Min(WaitMultiplier * Pow2(attempt - 1), WaitMax))

Narrative(text) == [kind |-> "narrative", text |-> text, rows |-> 0, cols |-> 0]

Fallback(stats) ==
    [kind |-> "fallback", text |-> "", rows |-> stats.total_rows,
     cols |-> stats.total_columns]

\* One attempt of generate_narrative as tenacity runs it: the body of the
\* function, then tenacity's decision on what the body raised.
GenerateNarrative ==
    /\ pc = "narrate"
    /\ requests_sent' = requests_sent + 1
    /\ LET response == server[attempt_number]
       IN  CASE response.kind = "ok" ->
                    /\ readme' = Narrative(response.text)
                    /\ writes' = writes + 1
                    /\ pc' = "done"
                    /\ UNCHANGED <<exc, attempt_number, slept>>
             [] IsRequestException(response.kind) ->
                    /\ readme' = Fallback(basic_stats)
                    /\ writes' = writes + 1
                    /\ pc' = "done"
                    /\ UNCHANGED <<exc, attempt_number, slept>>
             [] OTHER ->
                    IF attempt_number >= StopAfterAttempt
                      THEN /\ pc' = "raised"
                           /\ exc' = "RetryError"
                           /\ UNCHANGED <<attempt_number, slept, readme, writes>>
                      ELSE /\ attempt_number' = attempt_number + 1
                           /\ slept' = slept + WaitExponential(attempt_number)
                           /\ UNCHANGED <<pc, exc, readme, writes>>
    /\ UNCHANGED <<exc_msg, detected_encoding, encodings_to_try, enc_idx, tried,
                   last_result, loaded, df, analysis_vars, vis_vars, server>>

(***************************************************************************)
(* run_analysis on a constructed analyzer.                                 *)
(***************************************************************************)
Init ==
    /\ InitConstructed
    /\ IsPlainTable(df)
    /\ loaded = df
    /\ server \in Scripts

Next == NextAnalyze \/ VisualizeData \/ GenerateNarrative

Spec == Init /\ [][Next]_vars


(***************************************************************************)
(* The claims.                                                             *)
(***************************************************************************)
Finished == pc \in {"done", "raised"}

AnalysisDone == pc \in {"visualize", "narrate", "done", "raised"}

\* C1: a failed request (transport error or non-2xx) is retried, up to
\* StopAfterAttempt attempts; the fallback report is written only after all
\* StopAfterAttempt attempts have failed.
C1_FallbackOnlyAfterAllAttempts ==
    /\ readme.kind = "fallback" => requests_sent = StopAfterAttempt
    /\ (Finished /\ requests_sent > 0 /\ server[requests_sent].kind # "ok")
          => requests_sent = StopAfterAttempt

\* C2: when the first request fails with a network error and the second one
\* succeeds, generate_narrative returns with README.md holding exactly the
\* successful response's text, written exactly once.
C2_OneFailureThenSuccess ==
    (Finished /\ server[1].kind = "transport_error" /\ server[2].kind = "ok")
        => /\ pc = "done"
           /\ readme = Narrative(server[2].text)
           /\ writes = 1

\* C3: after a successful ingestion, whatever each narration attempt meets,
\* generate_narrative does not raise and run_analysis ends with README.md
\* written (model text or fallback).
C3_ReportAlwaysWritten ==
    /\ pc # "raised"
    /\ pc = "done" => readme.kind \in {"narrative", "fallback"}

\* No column is numeric-typed and no value parses as a number.
NoParseableValue(col) ==
    /\ col.dtype = "object"
    /\ \A i \in DOMAIN col.cells : col.cells[i].k = "str" => ~Parses(col.cells[i].s)

ZeroNumericColumns(t) == \A i \in DOMAIN t : NoParseableValue(t[i])

\* C4: for a table with zero numeric columns analyze_dataset returns
\* correlations = {} and basic_stats.summary = {}.
C4_ZeroNumericEmptySections ==
    (AnalysisDone /\ ZeroNumericColumns(loaded))
        => /\ DOMAIN correlations = {}
           /\ DOMAIN basic_stats.summary = {}

\* One column is numeric-typed and holds a value; no other column is
\* numeric-typed or holds a value that parses as a number.
ExactlyOneNumericColumn(t) ==
    \E i \in DOMAIN t :
        /\ IsNumberDtype(t[i].dtype)
        /\ ~AllNa(t[i])
        /\ \A j \in DOMAIN t \ {i} : NoParseableValue(t[j])

\* C5: for a table with exactly one numeric column (and any number of
\* non-numeric ones) analyze_dataset returns correlations = {} while the
\* basic statistics and the outlier section are computed.
C5_OneNumericNoCorrelation ==
    (AnalysisDone /\ ExactlyOneNumericColumn(loaded))
        => /\ DOMAIN correlations = {}
           /\ Cardinality(basic_stats.numeric_columns) = 1
           /\ DOMAIN basic_stats.summary = basic_stats.numeric_columns
           /\ DOMAIN outliers \subseteq basic_stats.numeric_columns

\* The candidate list as the specification words it: the detector's result,
\* then the fixed list without it.
ExpectedCandidates(d) == <<d>> \o SelectSeq(FallbackEncodings, LAMBDA e : e # d)

\* C6: the candidates are tried in list order (detector result first, then
\* the fixed list, duplicates removed), none twice; the first success ends
\* the loop and returns its table; a decode or parse error moves to the next
\* candidate; any other error propagates at once.
C6_CandidatesInOrder ==
    pc # "detect" =>
        LET expected == ExpectedCandidates(detected_encoding)
        IN  /\ Len(tried) <= Len(expected)
            /\ tried = SubSeq(expected, 1, Len(tried))
            /\ \A i, j \in DOMAIN tried : i # j => tried[i] # tried[j]
            /\ pc = "read" =>
                  /\ enc_idx = Len(tried) + 1
                  /\ tried # <<>> => last_result \in {"UnicodeDecodeError", "ParserError"}
            /\ pc = "constructed" =>
                  /\ last_result = "ok"
                  /\ tried # <<>>
                  /\ df = loaded
                  /\ Len(df) >= 1
            /\ last_result = "ok" => pc = "constructed"
            /\ last_result = "other" => (pc = "raised" /\ exc = "other")
            /\ (pc = "raised" /\ last_result # "other") => tried = expected

\* C6's case: the detector named a member of the fixed list, every earlier
\* candidate failed and the last one parsed.
C6_Witness ==
    /\ pc = "constructed"
    /\ detected_encoding = "ascii"
    /\ tried = <<"ascii", "utf-8", "latin-1", "iso-8859-1", "cp1252", "utf-16">>

\* C7: when every candidate fails with a decode or parse error the function
\* raises ValueError with a message naming every attempted encoding, for
\* every detector result, None included.
C7_AllFailedRaisesValueError ==
    (pc = "raised" /\ last_result \in {"UnicodeDecodeError", "ParserError"})
        => /\ exc = "ValueError"
           /\ exc_msg = tried

\* C8: every reported column has lower_bound = Q1 - 1.5 * IQR, upper_bound =
\* Q3 + 1.5 * IQR, total_outliers = the number of rows strictly outside the
\* bounds (at least 1), percentage = total_outliers / rows * 100; a numeric
\* column without such a row has no entry.
C8_OutlierReport ==
    pc = "visualize" =>
        /\ DOMAIN outliers \subseteq SelectNumberDtypes(df)
        /\ \A i \in DOMAIN df :
              IsNumberDtype(df[i].dtype) =>
                LET vals == Values(df[i])
                    q1 == IF vals = <<>> THEN 0 ELSE QuantileTimes4(vals, 1)
                    q3 == IF vals = <<>> THEN 0 ELSE QuantileTimes4(vals, 3)
                    lo8 == 5 * q1 - 3 * q3
                    hi8 == 5 * q3 - 3 * q1
                    strictly == {r \in DOMAIN df[i].cells :
                                    /\ df[i].cells[r].k = "num"
                                    /\ \/ 8 * df[i].cells[r].n < lo8
                                       \/ 8 * df[i].cells[r].n > hi8}
                IN  IF vals # <<>> /\ strictly # {}
                      THEN /\ df[i].name \in DOMAIN outliers
                           /\ LET e == outliers[df[i].name]
                              IN  /\ e.lower_bound.den > 0
                                  /\ e.lower_bound.num * 8 = lo8 * e.lower_bound.den
                                  /\ e.upper_bound.den > 0
                                  /\ e.upper_bound.num * 8 = hi8 * e.upper_bound.den
                                  /\ e.total_outliers = Cardinality(strictly)
                                  /\ e.total_outliers >= 1
                                  /\ e.percentage.den > 0
                                  /\ e.percentage.num * NRows(df)
                                        = e.total_outliers * 100 * e.percentage.den
                      ELSE df[i].name \notin DOMAIN outliers

\* C8's case: one column is reported with a single outlier, a second
\* numeric column is not reported.
C8_Witness ==
    /\ pc = "visualize"
    /\ Len(df) = 2
    /\ IsNumberDtype(df[2].dtype)
    /\ DOMAIN outliers = {"a"}
    /\ outliers["a"].total_outliers = 1

\* C9: visualize_data returns without raising and the figure it created is
\* closed at its return, whether or not a rendering or saving step raised.
C9_FigureReleased ==
    pc \in {"narrate", "done", "raised"} => ~figure_open

\* C10: after _get_basic_statistics the columns the later stages select by
\* dtype are exactly basic_stats.numeric_columns, and a column in which no
\* value survives coercion keeps its original values.
C10_NumericSetsAgree ==
    pc # "constructed" =>
        /\ SelectNumberDtypes(df) = basic_stats.numeric_columns
        /\ \A i \in DOMAIN loaded :
              NoParseableValue(loaded[i]) => df[i] = loaded[i]

=============================================================================
